---- MODULE Spec2Model ----
(***************************************************************************)
(* Model of src/src/mcp_server/server.py: the flow catalog built by        *)
(* IFlyWorkflowAPI.__init__, the chat_message generator, upload_file and   *)
(* the two MCP handlers handle_list_tools / handle_call_tool.              *)
(*                                                                         *)
(* Python values are modelled as follows.                                  *)
(*   - a str is a TLA+ string; a str built by formatting or concatenation  *)
(*     is the tuple of its parts, so every fragment is a tuple of strings. *)
(*   - a list is a sequence; Python's 0-based index i is element i + 1.    *)
(*   - a dict is a function (name_idx) or a set of <<key, value>> pairs    *)
(*     (tool arguments).                                                   *)
(*   - a line of the HTTP body is a record that says what its bytes are    *)
(*     (see LineSet); the parsing operators below compute on that record   *)
(*     what bytes.startswith, bytes.decode and json.loads compute.         *)
(***************************************************************************)
EXTENDS Integers, Sequences, FiniteSets, TLC

\* ------------------------------------------------------------------ bounds
\* Largest number of flow definitions in the configuration file.
MaxDefs == 2
\* Largest number of body lines the transport delivers to one tool call in
\* the server specification Spec.
MaxCallLines == 1
\* Largest number of body lines of one chat response in SpecStream.
MaxLines == 3

\* --------------------------------------------------------------- constants
\* server.py:57-58, 197
SysName == "sys_upload_file"
\* server.py:60
SysDescription == "upload file. Format support: image(jpg, png, bmp, jpeg), doc(pdf)"
\* server.py:61-70
SysSchema == "{type: object, properties: {file: {type: string}}, required: [file]}"
\* server.py:22, the default of Flow.input_schema
EmptySchema == "{}"

VARIABLES
  config_path,  \* os.getenv("CONFIG_PATH") is set (server.py:161)
  defs,         \* the records OmegaConf.load(config_path) gives (server.py:33)
  pc,           \* position of the module-level IFlyWorkflowAPI(config_path)
  i,            \* loop index of the constructor's current for loop
  flows,        \* self.flows
  name_idx,     \* self.name_idx
  init_error,   \* the exception that ended construction, or "none"
  http_log,     \* the HTTP requests issued by the operation in progress
  caller,       \* who consumes the chat_message generator
  call,         \* name and arguments of the current handle_call_tool
  g_pc,         \* position of the chat_message generator
  g_args,       \* its arguments: flow, inputs, stream
  lines,        \* the body lines response.iter_lines() has delivered so far
  frags,        \* the fragments the generator has yielded so far
  mcp_out,      \* handle_call_tool's local list mcp_out
  result        \* what the last handler invocation returned or raised

vars == <<config_path, defs, pc, i, flows, name_idx, init_error, http_log,
          caller, call, g_pc, g_args, lines, frags, mcp_out, result>>

catalogVars == <<flows, name_idx>>
genVars == <<caller, call, g_pc, g_args, lines, frags, mcp_out, result>>

\* ------------------------------------------------------------ list helpers
\* Python's seq[k] for a 0-based k.
At(seq, k) == seq[k + 1]

\* enumerate(seq): the 0-based indices of seq.
Indices(seq) == 0 .. (Len(seq) - 1)

\* ------------------------------------------------- configuration (inputs)
\* The flow_id and api_key of the k-th definition of the file (1-based k).
\* Both are opaque to the program; every definition has its own.
FlowIdOf(k) == <<"f1", "f2", "f3", "f4">>[k]
ApiKeyOf(k) == <<"k1", "k2", "k3", "k4">>[k]

\* Local names and descriptions a definition may carry; "" is absent
\* (Flow.name and Flow.description default to '', server.py:19-20).
LocalNames == {"", "a", SysName}
LocalDescriptions == {"", "local description"}

\* Sequences of length n of (name, description) pairs.
RECURSIVE MetaSeqs(_, _, _)
MetaSeqs(n, names, descs) ==
  IF n = 0 THEN {<<>>}
  ELSE {Append(s, m) : s \in MetaSeqs(n - 1, names, descs),
                       m \in names \X descs}

\* The configurations of at most n definitions.
Configs(n, names, descs) ==
  UNION {{[k \in 1 .. Len(s) |->
            [flow_id |-> FlowIdOf(k), name |-> s[k][1],
             description |-> s[k][2], api_key |-> ApiKeyOf(k)]] :
          s \in MetaSeqs(m, names, descs)} : m \in 0 .. n}

\* ------------------------------------------------------- remote service
\* What GET /workflow/v1/get_flow_info/{flow_id} answers: the HTTP status
\* failed, the JSON carries a nonzero code, the JSON lacks the data payload,
\* or the JSON carries code 0 and the flow's data.
DescribeOutcomes == {"ok", "http_error", "code_nonzero", "no_data"}

\* The data payload the remote service holds for a flow: two flows may carry
\* the same remote name.
RemoteName(flow_id) == IF flow_id \in {"f1", "f2"} THEN "b" ELSE "a"
RemoteData(flow_id) ==
  [name |-> RemoteName(flow_id),
   description |-> "remote description",
   inputSchema |-> <<"schema of", flow_id>>]

\* -------------------------------------------------------------- the Flow
\* Flow(**flow), server.py:17-22 and 33.
Flow(d) ==
  [flow_id |-> d.flow_id, name |-> d.name, description |-> d.description,
   api_key |-> d.api_key, input_schema |-> <<EmptySchema>>]

\* Faulty variant of GetFlowInfoError: the code of the JSON is not tested.
GetFlowInfoErrorNoCode(outcome) ==
  CASE outcome = "http_error" -> "HTTPError"
    [] OTHER -> "none"

\* get_flow_info, server.py:137-142: the exception it raises, or "none".
GetFlowInfoError(outcome) ==
  CASE outcome = "http_error" -> "HTTPError"
    [] outcome = "code_nonzero" -> "ValueError"
    [] OTHER -> "none"

\* Faulty variant of BackFill: the remote name replaces a local one.
BackFillOverwrite(flow, data) ==
  [flow EXCEPT !.name = data.name,
               !.description = IF flow.description # "" THEN flow.description
                               ELSE data.description,
               !.input_schema = data.inputSchema]

\* server.py:39-41 on a describe-call that returned: the back-filled flow.
BackFill(flow, data) ==
  [flow EXCEPT !.name = IF flow.name # "" THEN flow.name ELSE data.name,
               !.description = IF flow.description # "" THEN flow.description
                               ELSE data.description,
               !.input_schema = data.inputSchema]

\* Faulty variant of SysFlow: the key is borrowed from the last flow.
SysFlowLastKey(fs) ==
  [flow_id |-> SysName, name |-> SysName, description |-> SysDescription,
   api_key |-> At(fs, Len(fs) - 1).api_key, input_schema |-> <<SysSchema>>]

\* The synthetic flow of _add_sys_tool, server.py:56-71.
SysFlow(fs) ==
  [flow_id |-> SysName, name |-> SysName, description |-> SysDescription,
   api_key |-> At(fs, 0).api_key, input_schema |-> <<SysSchema>>]

\* Faulty variant of AddSys: the synthetic flow is put in front.
AddSysFirst(fs) == <<SysFlow(fs)>> \o fs

\* Faulty variant of AddSys: nothing is appended.
AddSysOmitted(fs) == fs

\* self.flows.append(...), server.py:54.
AddSys(fs) == Append(fs, SysFlow(fs))

\* Faulty variant of IdxPut: an existing entry is kept (dict.setdefault).
IdxPutKeepFirst(idx, name, k) ==
  IF name \in DOMAIN idx THEN idx
  ELSE [n \in DOMAIN idx \cup {name} |-> IF n = name THEN k ELSE idx[n]]

\* self.name_idx[flow.name] = k, server.py:47.
IdxPut(idx, name, k) ==
  [n \in DOMAIN idx \cup {name} |-> IF n = name THEN k ELSE idx[n]]

\* ------------------------------------------------------------ constructor
\* No handler has run and no generator exists.
NoCall == [name |-> "", arguments |-> {}]
NoArgs ==
  [flow |-> [flow_id |-> "", name |-> "", description |-> "", api_key |-> "",
             input_schema |-> <<EmptySchema>>],
   inputs |-> {}, stream |-> TRUE]
NoResult == [type |-> "none", value |-> <<>>]

NoGen ==
  /\ caller = "none" /\ call = NoCall
  /\ g_pc = "none" /\ g_args = NoArgs /\ lines = <<>> /\ frags = <<>>
  /\ mcp_out = <<>> /\ result = NoResult

InitWith(configs) ==
  /\ config_path \in BOOLEAN
  /\ defs \in (IF config_path THEN configs ELSE {<<>>})
  /\ pc = "load" /\ i = 0
  /\ flows = <<>> /\ name_idx = [n \in {} |-> 0]
  /\ init_error = "none" /\ http_log = <<>>
  /\ NoGen

\* server.py:30-34.
Load ==
  /\ pc = "load"
  /\ IF ~config_path
     THEN /\ pc' = "failed" /\ init_error' = "ValueError"
          /\ UNCHANGED flows
     ELSE /\ flows' = [k \in 1 .. Len(defs) |-> Flow(defs[k])]
          /\ pc' = "describe" /\ UNCHANGED init_error
  /\ UNCHANGED <<config_path, defs, i, name_idx, http_log>>
  /\ UNCHANGED genVars

\* One iteration of the loop of server.py:37-41.
DescribeFlow ==
  /\ pc = "describe" /\ i < Len(flows)
  /\ \E outcome \in DescribeOutcomes :
       LET flow == At(flows, i)
           err == IF GetFlowInfoError(outcome) # "none"
                  THEN GetFlowInfoError(outcome)
                  ELSE IF outcome = "no_data" THEN "KeyError" ELSE "none"
       IN /\ http_log' = Append(http_log,
                           [op |-> "describe", api_key |-> flow.api_key,
                            target |-> flow.flow_id, payload |-> {},
                            stream |-> FALSE, status |-> outcome])
          /\ IF err # "none"
             THEN /\ pc' = "failed" /\ init_error' = err
                  /\ UNCHANGED <<flows, i>>
             ELSE /\ flows' = [flows EXCEPT
                                 ![i + 1] = BackFill(flow, RemoteData(flow.flow_id))]
                  /\ i' = i + 1
                  /\ UNCHANGED <<pc, init_error>>
  /\ UNCHANGED <<config_path, defs, name_idx>>
  /\ UNCHANGED genVars

\* Faulty variant of AddSysTool: with no flow to borrow a key from, the
\* synthetic flow is appended with an empty api_key.
AddSysToolBlankKey ==
  /\ pc = "describe" /\ i = Len(flows)
  /\ flows' = IF Len(flows) = 0
              THEN <<SysFlow(<<[api_key |-> ""]>>)>>
              ELSE AddSys(flows)
  /\ pc' = "index" /\ i' = 0
  /\ UNCHANGED <<config_path, defs, name_idx, http_log, init_error>>
  /\ UNCHANGED genVars

\* self._add_sys_tool(), server.py:43 and 49-72; self.flows[0] raises
\* IndexError on an empty list, before anything is appended.
AddSysTool ==
  /\ pc = "describe" /\ i = Len(flows)
  /\ IF Len(flows) = 0
     THEN /\ pc' = "failed" /\ init_error' = "IndexError"
          /\ UNCHANGED <<flows, i>>
     ELSE /\ flows' = AddSys(flows)
          /\ pc' = "index" /\ i' = 0
          /\ UNCHANGED init_error
  /\ UNCHANGED <<config_path, defs, name_idx, http_log>>
  /\ UNCHANGED genVars

\* One iteration of the loop of server.py:46-47; the constructor returns
\* after the last one and the module-level catalog object exists.
BuildNameIdx ==
  /\ pc = "index" /\ i < Len(flows)
  /\ name_idx' = IdxPut(name_idx, At(flows, i).name, i)
  /\ i' = i + 1
  /\ pc' = IF i + 1 = Len(flows) THEN "serving" ELSE "index"
  /\ UNCHANGED <<config_path, defs, flows, init_error, http_log>>
  /\ UNCHANGED genVars


\* ---------------------------------------------------- the HTTP body lines
\* What follows the data: prefix of a line (or, without stream, the whole
\* body).  src is the text bytes.decode('utf-8') gives, as the tuple of its
\* parts; the other fields say what json.loads makes of it:
\*   utf8     the bytes are valid UTF-8
\*   json     "object", "other" (a list, a number, ...), "invalid"
\*   has_code, code   the object's "code" key
\*   shape    "full": choices[0] with delta.content and finish_reason;
\*            "no_finish": choices[0] with delta.content only;
\*            "no_choices": no choices[0].delta.content
\*   content, finish  choices[0].delta.content and choices[0].finish_reason
Payload(src, utf8, json, has_code, code, shape, content, finish) ==
  [src |-> src, utf8 |-> utf8, json |-> json,
   has_code |-> has_code, code |-> code, shape |-> shape,
   content |-> content, finish |-> finish]

Contents == {"a", "b"}

OkPayload(c, fin) ==
  Payload(<<" ", "{choices:[{delta:{content:", c, "},finish_reason:", fin, "}],code:0}">>,
          TRUE, "object", TRUE, 0, "full", c, fin)
NoCodePayload ==
  Payload(<<" ", "{choices:[{delta:{content:a},finish_reason:null}]}">>,
          TRUE, "object", FALSE, 0, "full", "a", "null")
ErrPayload ==
  Payload(<<" ", "{code:1,message:failed,choices:[{delta:{content:a},finish_reason:stop}]}">>,
          TRUE, "object", TRUE, 1, "full", "a", "stop")
InvalidPayload ==
  Payload(<<" ", "{choices:[{delta">>, TRUE, "invalid", FALSE, 0, "no_choices", "", "null")
NotUtf8Payload ==
  Payload(<<" ", "<bytes ff fe>">>, FALSE, "invalid", FALSE, 0, "no_choices", "", "null")
NotObjectPayload ==
  Payload(<<" ", "[1]">>, TRUE, "other", FALSE, 0, "no_choices", "", "null")
NoChoicesPayload ==
  Payload(<<" ", "{code:0}">>, TRUE, "object", TRUE, 0, "no_choices", "", "null")
NoFinishPayload ==
  Payload(<<" ", "{choices:[{delta:{content:b}}],code:0}">>,
          TRUE, "object", TRUE, 0, "no_finish", "b", "null")

PayloadSet ==
  {OkPayload(c, fin) : c \in Contents, fin \in {"null", "stop"}}
  \cup {NoCodePayload, ErrPayload, InvalidPayload, NotUtf8Payload,
        NotObjectPayload, NoChoicesPayload, NoFinishPayload}

\* A line response.iter_lines() delivers: its prefix and the rest.
DataLine(p) == [prefix |-> "data:", rest |-> p]
\* b'': iter_lines gives it for a blank line of the body.
EmptyLine ==
  [prefix |-> "",
   rest |-> Payload(<<>>, TRUE, "invalid", FALSE, 0, "no_choices", "", "null")]

\* A line of another SSE field.
OtherLine ==
  [prefix |-> "event:",
   rest |-> Payload(<<" ", "ping">>, TRUE, "invalid", FALSE, 0, "no_choices", "", "null")]

LineSet == {DataLine(p) : p \in PayloadSet} \cup {EmptyLine, OtherLine}

\* `line` is truthy: bytes are falsy only when empty.
Truthy(line) == line.prefix # "" \/ line.rest.src # <<>>

\* line.startswith(b'data:')
StartsWithData(line) == line.prefix = "data:"

\* Faulty variant of Qualifies: the prefix is not tested.
QualifiesAnyLine(line) == Truthy(line)

\* The guard of server.py:102.
Qualifies(line) == Truthy(line) /\ StartsWithData(line)

\* str(line) of a bytes object inside an f-string: b'...'.
BytesRepr(line) == <<"b'", line.prefix>> \o line.rest.src \o <<"'">>

\* server.py:114
DecodeErrorText(line) == <<"Error decoding JSON: ">> \o BytesRepr(line)

\* json.dumps(json.loads(text)): the text in json's own layout, without the
\* surrounding whitespace of the source text.
JsonDumps(p) == Tail(p.src)

\* json_data.get("code", 0) != 0, server.py:106 and 117.
CodeNonZero(p) == p.has_code /\ p.code # 0

\* One pass of the loop body of server.py:102-114 on `line`: what the
\* generator does and where it is afterwards.
\*   act "skip": nothing is yielded, the loop goes on;
\*   act "yield": frag is yielded and the generator is suspended at pc;
\*   act "raise": exc leaves the generator.
StepSkip == [act |-> "skip", pc |-> "loop", frag |-> <<>>, exc |-> "none"]
StepYield(at, frag) == [act |-> "yield", pc |-> at, frag |-> frag, exc |-> "none"]
StepRaise(exc) == [act |-> "raise", pc |-> "raised", frag |-> <<>>, exc |-> exc]

\* Faulty variant of LineStep: an error frame yields its delta content.
LineStepErrContent(line) ==
  LET p == line.rest IN
  IF ~Qualifies(line) THEN StepSkip
  ELSE IF ~p.utf8 THEN StepRaise("UnicodeDecodeError")
  ELSE IF p.json = "invalid" THEN StepYield("y_diag", DecodeErrorText(line))
  ELSE IF p.json # "object" THEN StepRaise("AttributeError")
  ELSE IF CodeNonZero(p) THEN StepYield("y_src", <<p.content>>)
  ELSE IF p.shape = "no_choices" THEN StepRaise("KeyError")
  ELSE StepYield("y_content", <<p.content>>)

\* Faulty variant of LineStep: a decode error ends the stream.
LineStepDiagStops(line) ==
  LET p == line.rest IN
  IF ~Qualifies(line) THEN StepSkip
  ELSE IF ~p.utf8 THEN StepRaise("UnicodeDecodeError")
  ELSE IF p.json = "invalid" THEN StepYield("y_src", DecodeErrorText(line))
  ELSE IF p.json # "object" THEN StepRaise("AttributeError")
  ELSE IF CodeNonZero(p) THEN StepYield("y_src", p.src)
  ELSE IF p.shape = "no_choices" THEN StepRaise("KeyError")
  ELSE StepYield("y_content", <<p.content>>)
LineStep(line) ==
  LET p == line.rest IN
  IF ~Qualifies(line) THEN StepSkip
  ELSE IF ~p.utf8 THEN StepRaise("UnicodeDecodeError")
  ELSE IF p.json = "invalid" THEN StepYield("y_diag", DecodeErrorText(line))
  ELSE IF p.json # "object" THEN StepRaise("AttributeError")
  ELSE IF CodeNonZero(p) THEN StepYield("y_src", p.src)
  ELSE IF p.shape = "no_choices" THEN StepRaise("KeyError")
  ELSE StepYield("y_content", <<p.content>>)

\* Faulty variant of ResumeStep: finish_reason "stop" does not break.
ResumeStepNoStop(at, line) ==
  CASE at = "y_src" -> [pc |-> "done", exc |-> "none"]
    [] at = "y_single" -> [pc |-> "done", exc |-> "none"]
    [] at = "y_diag" -> [pc |-> "loop", exc |-> "none"]
    [] at = "y_content" ->
         IF line.rest.shape = "no_finish" THEN [pc |-> "raised", exc |-> "KeyError"]
         ELSE [pc |-> "loop", exc |-> "none"]

\* The generator resumed after a yield: server.py:108 (break), 111-112
\* (the finish_reason test of the frame just yielded), 114 (next line), and
\* the end of the function after 118 or 120.
ResumeStep(at, line) ==
  CASE at = "y_src" -> [pc |-> "done", exc |-> "none"]
    [] at = "y_single" -> [pc |-> "done", exc |-> "none"]
    [] at = "y_diag" -> [pc |-> "loop", exc |-> "none"]
    [] at = "y_content" ->
         IF line.rest.shape = "no_finish" THEN [pc |-> "raised", exc |-> "KeyError"]
         ELSE IF line.rest.finish = "stop" THEN [pc |-> "done", exc |-> "none"]
         ELSE [pc |-> "loop", exc |-> "none"]

\* server.py:116-120 on the body p of a response without stream.
BodyStep(p) ==
  IF ~p.utf8 \/ p.json = "invalid" THEN StepRaise("JSONDecodeError")
  ELSE IF p.json # "object" THEN StepRaise("AttributeError")
  ELSE IF CodeNonZero(p) THEN StepYield("y_single", JsonDumps(p))
  ELSE IF p.shape = "no_choices" THEN StepRaise("KeyError")
  ELSE StepYield("y_single", <<p.content>>)

\* The whole body of a response without stream, as one entry of `lines`.
BodyLine(p) == [prefix |-> "", rest |-> p]

\* ------------------------------------------------------ tool-call inputs
\* The arguments dict of a tool call: a set of <<key, value>> pairs.
Args == {{}, {<<"file", "/tmp/cat.png">>}}
HasKey(d, key) == \E kv \in d : kv[1] = key
Get(d, key) == (CHOOSE kv \in d : kv[1] = key)[2]

\* What the upload endpoint and the local file system do on one upload.
UploadOutcomes == {"ok", "open_error", "http_error"}
\* response.content.decode('utf-8') of a successful upload, server.py:158.
UploadBody == <<"{code:0,data:{url:https://oss/cat.png}}">>

\* The status of the chat endpoint's response.
ChatStatuses == {"ok", "http_error"}

\* One request to the remote service and how the service answered it, as
\* http_log records it.
Request(op, api_key, target, payload, stream, status) ==
  [op |-> op, api_key |-> api_key, target |-> target, payload |-> payload,
   stream |-> stream, status |-> status]

\* Faulty variant of RaiseForStatus: the status is not checked.
RaiseForStatusNever(status) == "none"
\* response.raise_for_status(), server.py:99: the exception, or "none".
RaiseForStatus(status) == IF status # "ok" THEN "HTTPError" ELSE "none"

\* Faulty variant of TextContent: the fragment is not copied into the block.
TextContentEmpty(text) == [type |-> "text", text |-> <<>>]

\* types.TextContent(type='text', text=res), server.py:212-215 and 219-222.
TextContent(text) == [type |-> "text", text |-> text]

\* flow = ifly_workflow_api.flows[ifly_workflow_api.name_idx[name]],
\* server.py:196.
Lookup(name) == At(flows, name_idx[name])

\* No handler invocation and no generator is in progress.
Idle == pc = "serving" /\ g_pc \in {"none", "done", "raised"}

\* ------------------------------------------------------------ handlers
\* handle_list_tools, server.py:166-181.
ToolOf(flow) ==
  [name |-> flow.name, description |-> flow.description,
   inputSchema |-> flow.input_schema]

\* Faulty variant of HandleListTools: the schemas are moved out of the
\* flows into the tools.
HandleListToolsMovesSchema ==
  /\ Idle
  /\ result' = [type |-> "tools",
                value |-> [k \in 1 .. Len(flows) |-> ToolOf(flows[k])]]
  /\ flows' = [k \in 1 .. Len(flows) |->
                 [flows[k] EXCEPT !.input_schema = <<EmptySchema>>]]
  /\ caller' = "none" /\ call' = NoCall /\ g_pc' = "none" /\ g_args' = NoArgs
  /\ lines' = <<>> /\ frags' = <<>> /\ mcp_out' = <<>> /\ http_log' = <<>>
  /\ UNCHANGED <<config_path, defs, pc, i, name_idx, init_error>>

\* handle_list_tools, server.py:166-181: one tool per flow, in list order.
HandleListTools ==
  /\ Idle
  /\ result' = [type |-> "tools",
                value |-> [k \in 1 .. Len(flows) |-> ToolOf(flows[k])]]
  /\ caller' = "none" /\ call' = NoCall /\ g_pc' = "none" /\ g_args' = NoArgs
  /\ lines' = <<>> /\ frags' = <<>> /\ mcp_out' = <<>> /\ http_log' = <<>>
  /\ UNCHANGED <<config_path, defs, pc, i, flows, name_idx, init_error>>

\* The test of server.py:194.
IsKnown(name) == name \in DOMAIN name_idx

\* Faulty variant of UnknownTool: an empty result instead of the error.
UnknownToolEmpty(name) == [type |-> "content", value |-> <<>>]
\* raise ValueError(f"Unknown tool: {name}"), server.py:195.
UnknownTool(name) ==
  [type |-> "error", value |-> <<"ValueError", "Unknown tool: ", name>>]

\* upload_file(api_key, file_path), server.py:144-158, under `outcome`:
\* the requests it issues and what it returns or raises.
UploadFile(api_key, file_path, outcome) ==
  LET req == Request("upload", api_key, file_path, {}, FALSE, outcome) IN
  CASE outcome = "open_error" ->
         [log |-> <<>>, exc |-> "FileNotFoundError", body |-> <<>>]
    [] outcome = "http_error" ->
         [log |-> <<req>>, exc |-> "HTTPError", body |-> <<>>]
    [] OTHER -> [log |-> <<req>>, exc |-> "none", body |-> UploadBody]

\* handle_call_tool(name, arguments), server.py:194-224, up to the point
\* where it starts to iterate the chat_message generator.  The unknown-tool
\* and upload branches run to their end here: they hold no generator.
HandleCallTool ==
  /\ Idle
  /\ \E name \in DOMAIN name_idx \cup {"nonexistent"}, arguments \in Args,
        outcome \in UploadOutcomes :
       /\ call' = [name |-> name, arguments |-> arguments]
       /\ lines' = <<>> /\ frags' = <<>>
       /\ IF ~IsKnown(name)
          THEN /\ result' = UnknownTool(name)
               /\ caller' = "none" /\ g_pc' = "none" /\ g_args' = NoArgs
               /\ mcp_out' = <<>> /\ http_log' = <<>>
          ELSE IF name = SysName
          THEN /\ caller' = "none" /\ g_pc' = "none" /\ g_args' = NoArgs
               /\ IF ~HasKey(arguments, "file")
                  THEN /\ result' = [type |-> "error", value |-> <<"KeyError", "file">>]
                       /\ mcp_out' = <<>> /\ http_log' = <<>>
                  ELSE LET up == UploadFile(Lookup(name).api_key,
                                            Get(arguments, "file"), outcome)
                       IN /\ http_log' = up.log
                          /\ IF up.exc # "none"
                             THEN /\ result' = [type |-> "error", value |-> <<up.exc>>]
                                  /\ mcp_out' = <<>>
                             ELSE /\ mcp_out' = <<TextContent(up.body)>>
                                  /\ result' = [type |-> "content", value |-> mcp_out']
          ELSE /\ caller' = "handler" /\ g_pc' = "created"
               /\ g_args' = [flow |-> Lookup(name), inputs |-> arguments,
                             stream |-> TRUE]
               /\ mcp_out' = <<>> /\ http_log' = <<>>
               /\ result' = NoResult
  /\ UNCHANGED <<config_path, defs, pc, i, flows, name_idx, init_error>>

\* A direct call of chat_message(flow, inputs, stream), as the repository's
\* test makes it: the generator object is created and then iterated.
ChatMessage ==
  /\ Idle
  /\ \E k \in 1 .. Len(flows), inputs \in Args, stream \in BOOLEAN :
       g_args' = [flow |-> flows[k], inputs |-> inputs, stream |-> stream]
  /\ caller' = "direct" /\ call' = NoCall /\ g_pc' = "created"
  /\ lines' = <<>> /\ frags' = <<>> /\ mcp_out' = <<>> /\ http_log' = <<>>
  /\ result' = NoResult
  /\ UNCHANGED <<config_path, defs, pc, i, flows, name_idx, init_error>>

\* ------------------------------------------------- the generator's steps
\* Faulty variant of Returned: the output so far is handed to the client at
\* every fragment.
ReturnedEachFragment(step, out, prev) ==
  IF step.pc = "raised"
  THEN [type |-> "error", value |-> <<step.exc>>]
  ELSE IF caller = "handler" /\ (step.pc = "done" \/ step.act = "yield")
  THEN [type |-> "content", value |-> out]
  ELSE prev

\* What the client of handle_call_tool has received after one step of the
\* generator, prev being what it had before: the exception the generator
\* raised, or the list out of `return mcp_out` (server.py:224), which is
\* reached only when the for loop of server.py:210 is over.
Returned(step, out, prev) ==
  IF step.pc = "raised"
  THEN [type |-> "error", value |-> <<step.exc>>]
  ELSE IF step.pc = "done" /\ caller = "handler"
  THEN [type |-> "content", value |-> out]
  ELSE prev

\* What the consumer of the generator does with one step of it.  The loop
\* of server.py:210-216 appends each fragment to mcp_out; the handler
\* returns mcp_out when the generator is exhausted (server.py:224) and
\* raises what the generator raises.  A direct caller only reads.
Deliver(step) ==
  /\ g_pc' = step.pc
  /\ frags' = IF step.act = "yield" THEN Append(frags, step.frag) ELSE frags
  /\ mcp_out' = IF caller = "handler" /\ step.act = "yield"
                THEN Append(mcp_out, TextContent(step.frag)) ELSE mcp_out
  /\ result' = Returned(step, mcp_out', result)

\* The first next(): server.py:87-99, and 116-120 without stream.
GenStart ==
  /\ pc = "serving" /\ g_pc = "created"
  /\ \E status \in ChatStatuses, body \in PayloadSet :
       /\ http_log' = Append(http_log,
                        Request("chat", g_args.flow.api_key, g_args.flow.flow_id,
                                g_args.inputs, g_args.stream, status))
       /\ IF RaiseForStatus(status) # "none"
          THEN /\ Deliver(StepRaise(RaiseForStatus(status))) /\ UNCHANGED lines
          ELSE IF g_args.stream
          THEN /\ Deliver(StepSkip) /\ UNCHANGED lines
          ELSE /\ lines' = <<BodyLine(body)>>
               /\ Deliver(BodyStep(body))
  /\ UNCHANGED <<config_path, defs, pc, i, flows, name_idx, init_error>>
  /\ UNCHANGED <<caller, call, g_args>>

\* response.iter_lines() delivers one more line, server.py:101-114.
GenReadLine(bound) ==
  /\ pc = "serving" /\ g_pc = "loop" /\ Len(lines) < bound
  /\ \E line \in LineSet :
       /\ lines' = Append(lines, line)
       /\ Deliver(LineStep(line))
  /\ UNCHANGED <<config_path, defs, pc, i, flows, name_idx, init_error>>
  /\ UNCHANGED <<caller, call, g_args, http_log>>

\* Faulty variant of GenEndOfStream: the end of the body is announced by a
\* fragment of its own.
GenEndOfStreamAnnounced ==
  /\ pc = "serving" /\ g_pc = "loop"
  /\ Deliver([act |-> "yield", pc |-> "done", frag |-> <<"[DONE]">>,
              exc |-> "none"])
  /\ UNCHANGED <<config_path, defs, pc, i, flows, name_idx, init_error>>
  /\ UNCHANGED <<caller, call, g_args, http_log, lines>>

\* response.iter_lines() is exhausted: the for loop and the generator end.
GenEndOfStream ==
  /\ pc = "serving" /\ g_pc = "loop"
  /\ Deliver([act |-> "end", pc |-> "done", frag |-> <<>>, exc |-> "none"])
  /\ UNCHANGED <<config_path, defs, pc, i, flows, name_idx, init_error>>
  /\ UNCHANGED <<caller, call, g_args, http_log, lines>>

\* The consumer asks for the next fragment of a suspended generator.
GenResume ==
  /\ pc = "serving" /\ g_pc \in {"y_src", "y_content", "y_diag", "y_single"}
  /\ LET r == ResumeStep(g_pc, lines[Len(lines)])
     IN Deliver([act |-> "resume", pc |-> r.pc, frag |-> <<>>, exc |-> r.exc])
  /\ UNCHANGED <<config_path, defs, pc, i, flows, name_idx, init_error>>
  /\ UNCHANGED <<caller, call, g_args, http_log, lines>>

\* ------------------------------------------------------ specifications
\* The server: the catalog is built from any configuration, then tools are
\* listed and called.
Init == InitWith(Configs(MaxDefs, LocalNames, LocalDescriptions))
Next ==
  \/ Load \/ DescribeFlow \/ AddSysTool \/ BuildNameIdx
  \/ HandleListTools \/ HandleCallTool
  \/ GenStart \/ GenReadLine(MaxCallLines) \/ GenEndOfStream \/ GenResume
Spec == Init /\ [][Next]_vars

\* The chat stream: one catalog, chat responses of up to MaxLines lines,
\* consumed by handle_call_tool or by a direct caller of chat_message.
StreamConfig ==
  <<[flow_id |-> FlowIdOf(1), name |-> "a", description |-> "",
     api_key |-> ApiKeyOf(1)]>>
InitStream == InitWith({StreamConfig})
NextStream ==
  \/ Load \/ DescribeFlow \/ AddSysTool \/ BuildNameIdx
  \/ HandleCallTool \/ ChatMessage
  \/ GenStart \/ GenReadLine(MaxLines) \/ GenEndOfStream \/ GenResume
SpecStream == InitStream /\ [][NextStream]_vars

\* ------------------------------------------------------------ the catalog
\* A name that occurs in self.flows.
FlowNames == {flows[k].name : k \in 1 .. Len(flows)}

\* The 0-based indices of the flows named n.
IndicesNamed(n) == {k \in Indices(flows) : At(flows, k).name = n}

\* The greatest element of a non-empty set of integers.
MaxOf(S) == CHOOSE m \in S : \A k \in S : k <= m

\* C1: every catalog the constructor completes from N >= 1 definitions has
\* exactly N + 1 flows, its last flow is the synthetic one (name and flow_id
\* sys_upload_file), and sys_upload_file is a key of name_idx.
C1_CatalogSize ==
  (pc = "serving" /\ Len(defs) >= 1) =>
     /\ Len(flows) = Len(defs) + 1
     /\ At(flows, Len(flows) - 1).name = SysName
     /\ At(flows, Len(flows) - 1).flow_id = SysName
     /\ SysName \in DOMAIN name_idx

C1_Witness ==
  /\ pc = "serving" /\ Len(defs) = MaxDefs
  /\ Len(flows) = MaxDefs + 1

\* C2: after construction every name that occurs in the flows list is a key
\* of name_idx, its entry is a valid index, and it is the greatest index of a
\* flow of that name: of two flows sharing a name the later one is found and
\* the earlier one is not the entry of any name.
C2_LaterWins ==
  pc = "serving" =>
     /\ \A n \in FlowNames :
          /\ n \in DOMAIN name_idx
          /\ name_idx[n] \in Indices(flows)
          /\ name_idx[n] = MaxOf(IndicesNamed(n))
          /\ Lookup(n) = At(flows, MaxOf(IndicesNamed(n)))
     /\ \A j \in Indices(flows), k \in Indices(flows) :
          (j < k /\ At(flows, j).name = At(flows, k).name) =>
             \A n \in DOMAIN name_idx : name_idx[n] # j

\* Two definitions share a name and the name resolves to the later one.
C2_Witness ==
  /\ pc = "serving"
  /\ \E j \in Indices(defs), k \in Indices(defs) :
       /\ j < k
       /\ At(flows, j).name = At(flows, k).name
       /\ At(flows, j).name # SysName
       /\ At(flows, name_idx[At(flows, j).name]).flow_id = FlowIdOf(k + 1)

\* --------------------------------------------------------- the chat stream
\* The last line the transport delivered.
LastLine(ls) == ls[Len(ls)]

\* A generator of the streaming mode exists and has been started.
Streaming == g_args.stream /\ g_pc \notin {"none", "created"}

\* This step reads one more line of a streamed body.
ReadsLine == Streaming /\ g_pc = "loop" /\ lines' # lines

\* A data: frame that is a JSON object with code 0, choices[0].delta.content
\* and choices[0].finish_reason.
WellFormedFrame(line) ==
  /\ line.prefix = "data:" /\ line.rest.utf8 /\ line.rest.json = "object"
  /\ line.rest.has_code /\ line.rest.code = 0 /\ line.rest.shape = "full"

\* A data: frame that is a JSON object with a present, nonzero code.
ErrorFrame(line) ==
  /\ line.prefix = "data:" /\ line.rest.utf8 /\ line.rest.json = "object"
  /\ line.rest.has_code /\ line.rest.code # 0

\* A data: line whose remainder is text that is not JSON.
MalformedFrame(line) ==
  /\ line.prefix = "data:" /\ line.rest.utf8 /\ line.rest.json = "invalid"

\* A line without the data: prefix, the empty line included.
NotDataLine(line) == line.prefix # "data:"

\* C3: while every line read from a streamed body is a well-formed code-0
\* frame, the fragments are the frames' delta contents in line order, one per
\* frame; no line is read after a frame whose finish_reason is "stop", and
\* after yielding that frame's content the generator ends.
C3_StreamingParse ==
  (Streaming /\ \A k \in 1 .. Len(lines) : WellFormedFrame(lines[k])) =>
     /\ frags = [k \in 1 .. Len(lines) |-> <<lines[k].rest.content>>]
     /\ \A k \in 1 .. Len(lines) - 1 : lines[k].rest.finish # "stop"
     /\ (lines # <<>> /\ LastLine(lines).rest.finish = "stop") =>
           g_pc \in {"y_content", "done"}
     /\ g_pc = "raised" => lines = <<>>

\* The stream a, then b with stop, gave exactly [a, b] and ended.
C3_Witness ==
  /\ Streaming /\ g_pc = "done"
  /\ lines = <<DataLine(OkPayload("a", "null")), DataLine(OkPayload("b", "stop"))>>
  /\ frags = << <<"a">>, <<"b">> >>

\* C4: a step of the streaming generator that reads a frame with a present,
\* nonzero code yields exactly one fragment, the raw decoded text of the
\* frame (not its delta content), and the generator then ends without
\* reading another line or yielding another fragment.
C4_ErrorCodeShortCircuit ==
  [][/\ (ReadsLine /\ ErrorFrame(LastLine(lines'))) =>
          /\ frags' = Append(frags, LastLine(lines').rest.src)
          /\ g_pc' = "y_src"
     /\ (Streaming /\ g_pc = "y_src") =>
          /\ g_pc' = "done" /\ frags' = frags /\ lines' = lines]_vars

\* An error frame read after a content frame ended the stream with its raw
\* text as the last of two fragments.
C4_Witness ==
  /\ Streaming /\ g_pc = "done" /\ Len(lines) = 2
  /\ WellFormedFrame(lines[1]) /\ ErrorFrame(lines[2])
  /\ frags = << <<lines[1].rest.content>>, lines[2].rest.src >>
  /\ lines[2].rest.src # <<lines[2].rest.content>>

\* C5: a step of the streaming generator that reads a data: line whose
\* remainder is not JSON yields exactly one fragment, the decode-error
\* message followed by the raw line, and the generator then goes back to
\* the head of its loop with nothing else changed, so the lines that follow
\* are treated as if the malformed line had not been there.
C5_MalformedLineResilience ==
  [][/\ (ReadsLine /\ MalformedFrame(LastLine(lines'))) =>
          /\ frags' = Append(frags, <<"Error decoding JSON: ">>
                                      \o BytesRepr(LastLine(lines')))
          /\ g_pc' = "y_diag" /\ result' = result
     /\ (Streaming /\ g_pc = "y_diag") =>
          /\ g_pc' = "loop" /\ frags' = frags /\ lines' = lines
          /\ result' = result]_vars

\* A content frame after a malformed line produced its fragment.
C5_Witness ==
  /\ Streaming /\ Len(lines) = 2
  /\ MalformedFrame(lines[1]) /\ WellFormedFrame(lines[2])
  /\ frags = << <<"Error decoding JSON: ">> \o BytesRepr(lines[1]),
                <<lines[2].rest.content>> >>

\* C6: a step of the streaming generator that reads a line without the
\* data: prefix (the empty line included) yields no fragment, raises no
\* error and leaves the generator at the head of its loop: apart from the
\* line being consumed nothing changes, so such lines can be inserted or
\* removed without changing the fragments.
C6_NonDataLinesIgnored ==
  [][(ReadsLine /\ NotDataLine(LastLine(lines'))) =>
        /\ frags' = frags /\ g_pc' = "loop"
        /\ mcp_out' = mcp_out /\ result' = result]_vars

\* An empty line and another non-data line around a content frame left
\* exactly the frame's fragment.
C6_Witness ==
  /\ Streaming /\ Len(lines) = 3
  /\ lines[1] = EmptyLine /\ WellFormedFrame(lines[2]) /\ lines[3] = OtherLine
  /\ frags = << <<lines[2].rest.content>> >>
  /\ g_pc = "loop"

\* C7: without stream, a response with a success status gives exactly one
\* fragment: json.dumps of the body when its code is nonzero, else
\* choices[0].delta.content.
C7_NonStreamingOneFragment ==
  (~g_args.stream /\ g_pc \in {"y_single", "done", "raised"}
     /\ http_log # <<>> /\ LastLine(http_log).status = "ok") =>
     /\ Len(frags) = 1
     /\ frags[1] = IF CodeNonZero(lines[1].rest) THEN JsonDumps(lines[1].rest)
                   ELSE <<lines[1].rest.content>>

\* ------------------------------------------------------------- tool calls
\* handle_call_tool has been invoked with this name.
Called(name) == pc = "serving" /\ call # NoCall /\ call.name = name

\* The requests of kind op in http_log.
Requests(op) == {k \in 1 .. Len(http_log) : http_log[k].op = op}

\* C8: a call of a name that is not a key of name_idx is rejected with the
\* unknown-tool error, has no output block and issues no request.
C8_UnknownToolRejected ==
  (pc = "serving" /\ call # NoCall /\ call.name \notin DOMAIN name_idx) =>
     /\ result.type = "error" /\ result.value[1] = "ValueError"
     /\ mcp_out = <<>> /\ http_log = <<>>
     /\ g_pc = "none"

C8_Witness ==
  /\ Called("nonexistent") /\ result.type = "error"
  /\ Len(flows) = MaxDefs + 1

\* C9: a call of sys_upload_file with a file argument issues no chat
\* request and at most one upload request, which carries the api_key of the
\* first definition and the given path; when the upload succeeds there is
\* exactly one such request and the handler returns exactly one text block,
\* the upload response body.
C9_UploadUsesBorrowedKey ==
  (Called(SysName) /\ HasKey(call.arguments, "file")) =>
     /\ Requests("chat") = {}
     /\ Cardinality(Requests("upload")) = Len(http_log)
     /\ Len(http_log) <= 1
     /\ \A k \in Requests("upload") :
          /\ http_log[k].api_key = defs[1].api_key
          /\ http_log[k].target = Get(call.arguments, "file")
     /\ result.type \in {"content", "error"}
     /\ result.type = "content" <=>
          (Len(http_log) = 1 /\ http_log[1].status = "ok")
     /\ result.type = "content" =>
          result.value = <<[type |-> "text", text |-> UploadBody]>>

\* An upload succeeded in a catalog of several definitions, one of them
\* itself named sys_upload_file.
C9_Witness ==
  /\ Called(SysName) /\ result.type = "content"
  /\ Len(defs) = MaxDefs /\ defs[1].api_key # defs[MaxDefs].api_key
  /\ \E k \in 1 .. Len(defs) : flows[k].name = SysName
  /\ Len(http_log) = 1 /\ http_log[1].api_key = defs[1].api_key

\* C10: when the chat response of a tool call has a non-success status, no
\* body line is read, no fragment is produced, and the call raises: it
\* returns no output block.
C10_ChatStatusAborts ==
  (caller = "handler" /\ http_log # <<>>
     /\ LastLine(http_log).op = "chat" /\ LastLine(http_log).status # "ok") =>
     /\ lines = <<>> /\ frags = <<>> /\ mcp_out = <<>>
     /\ g_pc = "raised"
     /\ result = [type |-> "error", value |-> <<"HTTPError">>]

C10_Witness ==
  /\ caller = "handler" /\ g_pc = "raised" /\ http_log # <<>>
  /\ LastLine(http_log).status = "http_error"
  /\ result.type = "error"


\* ------------------------------------------------- failed construction
\* The describe-calls in http_log whose response failed: a non-success
\* status, or a nonzero code in the JSON.
FailedDescribes ==
  {k \in 1 .. Len(http_log) :
     /\ http_log[k].op = "describe"
     /\ http_log[k].status \in {"http_error", "code_nonzero"}}

\* C11: once a describe-call has failed, construction has ended with the
\* exception of that call; the failed call is the last request issued, the
\* definitions after it were never described, the synthetic flow has not
\* been appended, name_idx is empty, and no handler has seen a catalog.
C11_DescribeFailureAborts ==
  FailedDescribes # {} =>
     /\ pc = "failed"
     /\ init_error \in {"HTTPError", "ValueError"}
     /\ FailedDescribes = {Len(http_log)}
     /\ \A k \in 1 .. Len(http_log) : http_log[k].target = FlowIdOf(k)
     /\ Len(http_log) = i + 1
     /\ Len(flows) = Len(defs)
     /\ \A k \in 1 .. Len(flows) : flows[k].flow_id # SysName
     /\ DOMAIN name_idx = {}
     /\ call = NoCall /\ result = NoResult /\ g_pc = "none"

\* The describe-call of the first of several definitions failed with a
\* nonzero code: the second was never described.
C11_Witness ==
  /\ pc = "failed" /\ Len(defs) = MaxDefs
  /\ Len(http_log) = 1 /\ http_log[1].status = "code_nonzero"
  /\ init_error = "ValueError"


\* ------------------------------------------------- what the client receives
\* handle_call_tool is iterating a chat_message generator that has neither
\* finished nor raised: its response is still open.
HandlerOpen ==
  caller = "handler" /\ g_pc \notin {"none", "done", "raised"}

\* C12, as stated: while the handler's stream is still open, the client
\* has already received the fragments produced so far.
C12_EarlyFragmentObservable ==
  (HandlerOpen /\ frags # <<>>) =>
     /\ result.type = "content"
     /\ Len(result.value) = Len(frags)

\* C12, amended: each fragment is appended to the handler's local list before
\* the next line is asked of the transport, but the client has received
\* nothing while the stream is open; the list is handed over in one piece,
\* and only once the generator is exhausted.
C12_BufferedUntilEnd ==
  caller = "handler" =>
     /\ Len(mcp_out) = Len(frags)
     /\ HandlerOpen => result = NoResult
     /\ result.type = "content" => (g_pc = "done" /\ result.value = mcp_out)

\* Two lines have been read and the stream is still open: the first
\* fragment is in the local list and the client has nothing.
C12_Witness ==
  /\ HandlerOpen /\ Len(lines) = 2 /\ g_pc = "loop"
  /\ Len(mcp_out) >= 1 /\ result = NoResult

\* C13: a call of a tool other than sys_upload_file issues its chat request
\* with stream = TRUE, and the list it returns has exactly one text block
\* per fragment the generator produced, block k holding fragment k.
C13_OneBlockPerFragment ==
  caller = "handler" =>
     /\ call.name # SysName
     /\ g_args.stream
     /\ \A k \in Requests("chat") : http_log[k].stream
     /\ Len(mcp_out) = Len(frags)
     /\ \A k \in 1 .. Len(frags) :
          mcp_out[k] = [type |-> "text", text |-> frags[k]]
     /\ result.type = "content" => result.value = mcp_out

\* A call has returned two blocks with different texts.
C13_Witness ==
  /\ caller = "handler" /\ result.type = "content"
  /\ Len(result.value) = 2 /\ Len(frags) = 2
  /\ frags[1] # frags[2]


\* ------------------------------------------------- no definitions
\* C14: with a configuration of zero definitions, construction fails with
\* the error of the empty list at the step that appends the synthetic flow:
\* nothing is appended, nothing is indexed, no request is issued; and no
\* catalog past that step ever holds the synthetic flow alone.
C14_EmptyCatalogFails ==
  /\ (config_path /\ defs = <<>> /\ pc \notin {"load", "describe"}) =>
        /\ pc = "failed" /\ init_error = "IndexError"
        /\ flows = <<>> /\ DOMAIN name_idx = {}
        /\ http_log = <<>>
  /\ pc \in {"index", "serving"} =>
        /\ Len(flows) >= 2
        /\ \E k \in 1 .. Len(flows) - 1 : flows[k].flow_id # SysName

\* Construction from an existing, empty configuration has failed.
C14_Witness ==
  config_path /\ defs = <<>> /\ pc = "failed" /\ init_error = "IndexError"


\* ------------------------------------------------- undecodable frames
\* A data: line that cannot be decoded into the expected shape without being
\* plain invalid JSON text: bytes that are not UTF-8, JSON that is not an
\* object, or an object of code 0 without choices[0].delta.content or
\* without choices[0].finish_reason.
UndecodableFrame(line) ==
  /\ line.prefix = "data:"
  /\ \/ ~line.rest.utf8
     \/ line.rest.utf8 /\ line.rest.json = "other"
     \/ /\ line.rest.utf8 /\ line.rest.json = "object"
        /\ ~CodeNonZero(line.rest) /\ line.rest.shape # "full"

\* C15: the generator never fails on an undecodable data: frame; the frame
\* is answered by the decode-error diagnostic as a fragment and the
\* generator goes on with the lines that follow.
C15_UndecodableFrameRecovered ==
  (Streaming /\ lines # <<>> /\ UndecodableFrame(LastLine(lines))) =>
     /\ g_pc \in {"y_diag", "loop", "done"}
     /\ frags # <<>>
     /\ frags[Len(frags)] = DecodeErrorText(LastLine(lines))


\* ------------------------------------------------- metadata back-fill
\* The flow at position k (from 1) has been through its describe-call.
Described(k) ==
  \/ pc \in {"index", "serving"}
  \/ pc \in {"describe", "failed"} /\ k <= i

\* C16: a described flow keeps the name and the description its definition
\* supplied, takes from the describe-call's data only those its definition
\* left empty, and always takes its input_schema from that data; flow_id and
\* api_key of every flow are those of its definition throughout.
C16_MetadataBackFill ==
  \A k \in 1 .. Len(defs) :
     k <= Len(flows) =>
        /\ flows[k].flow_id = defs[k].flow_id
        /\ flows[k].api_key = defs[k].api_key
        /\ IF Described(k)
           THEN /\ flows[k].name =
                     IF defs[k].name # "" THEN defs[k].name
                     ELSE RemoteData(defs[k].flow_id).name
                /\ flows[k].description =
                     IF defs[k].description # "" THEN defs[k].description
                     ELSE RemoteData(defs[k].flow_id).description
                /\ flows[k].input_schema = RemoteData(defs[k].flow_id).inputSchema
           ELSE flows[k] = Flow(defs[k])

\* A constructed catalog with one definition that supplied a name that is
\* not the remote one and no description, and one that supplied a
\* description and no name.
C16_Witness ==
  /\ pc = "serving" /\ Len(defs) = 2
  /\ defs[1].name = "a" /\ defs[1].description = ""
  /\ flows[1].name = "a" /\ flows[1].description = "remote description"
  /\ defs[2].name = "" /\ defs[2].description = "local description"
  /\ flows[2].name = "b" /\ flows[2].description = "local description"


\* ------------------------------------------------- end of the body
\* This step is the end of a streamed body: the generator is in its loop
\* and moves without reading a line.
EndsStream == Streaming /\ g_pc = "loop" /\ lines' = lines /\ g_pc' # g_pc

\* C17: a streamed call has never more fragments than lines read; and when
\* the body ends with the generator still in its loop (no stop frame and no
\* error frame ended it), the generator finishes there with no further
\* fragment and no error, the handler returning what it had collected.
C17_SilentEndOfStream ==
  [][/\ Streaming' => Len(frags') <= Len(lines')
     /\ EndsStream =>
          /\ g_pc' = "done"
          /\ frags' = frags /\ mcp_out' = mcp_out
          /\ result'.type # "error"
          /\ caller = "handler" =>
               (result'.type = "content" /\ Len(result'.value) = Len(frags))
    ]_vars

\* A streamed body of the longest length has ended after a frame that was
\* neither a stop frame nor an error frame, with fewer fragments than lines.
C17_Witness ==
  /\ Streaming /\ g_pc = "done" /\ Len(lines) = MaxLines
  /\ WellFormedFrame(LastLine(lines)) /\ LastLine(lines).rest.finish # "stop"
  /\ Len(frags) >= 1 /\ Len(frags) < Len(lines)
  /\ result.type # "error"


\* ------------------------------------------------- a flow named sys_upload_file
\* The positions (from 1) of the definitions whose flow carries the name of
\* the synthetic flow.
UserSysFlows == {k \in 1 .. Len(defs) : k <= Len(flows) /\ flows[k].name = SysName}

\* C18, as stated: in a catalog with a definition named sys_upload_file, the
\* lookup of that name gives the flow of the definition, and a call of the
\* name is a chat with that flow.
C18_UserFlowShadowsReserved ==
  (pc = "serving" /\ UserSysFlows # {}) =>
     /\ name_idx[SysName] + 1 \in UserSysFlows
     /\ Called(SysName) => (caller = "handler" /\ Requests("upload") = {})

\* C18, amended: in a catalog with a definition named sys_upload_file, the
\* lookup of that name gives the synthetic flow, which is the last one; no
\* name leads to the definition's flow; and a call of the name is the
\* upload with the key of the first definition, never a chat.
C18_ReservedShadowsUserFlow ==
  (pc = "serving" /\ UserSysFlows # {}) =>
     /\ name_idx[SysName] = Len(flows) - 1
     /\ Lookup(SysName).flow_id = SysName
     /\ \A n \in DOMAIN name_idx : name_idx[n] + 1 \notin UserSysFlows
     /\ Called(SysName) =>
          /\ caller = "none" /\ g_pc = "none"
          /\ \A k \in 1 .. Len(http_log) :
               /\ http_log[k].op = "upload"
               /\ http_log[k].api_key = defs[1].api_key

\* The first definition is named sys_upload_file and a call of that name
\* has been served by the upload.
C18_Witness ==
  /\ Called(SysName) /\ 1 \in UserSysFlows
  /\ Len(http_log) = 1 /\ http_log[1].op = "upload"
  /\ result.type = "content"


\* ------------------------------------------------- the catalog after construction
\* C19: once the constructor has returned, no step of any handler (a
\* listing, a call that is served, rejected, or that fails while its body is
\* read) changes the list of flows, a field of a flow, or name_idx; the
\* catalog stays the constructed one.
C19_CatalogReadOnly ==
  [][pc = "serving" =>
       /\ pc' = "serving"
       /\ flows' = flows
       /\ name_idx' = name_idx
       /\ defs' = defs
    ]_vars

\* A call has failed while its body was read, in a catalog of the largest
\* size, after which the handlers still serve.
C19_Witness ==
  /\ pc = "serving" /\ caller = "handler" /\ g_pc = "raised" /\ lines # <<>>
  /\ Len(flows) = MaxDefs + 1
  /\ \A k \in 1 .. Len(flows) : flows[k].input_schema # <<EmptySchema>>


\* ------------------------------------------------- listed tools and dispatch
\* C20: in a constructed catalog every flow, hence every tool of a listing,
\* is reached by its own name: the name is known and its lookup gives that
\* very flow, with its flow_id and api_key; and a listing shows one tool per
\* flow, each of which a call would serve with the flow it was built from.
C20_ListedToolDispatchesToOwnFlow ==
  pc = "serving" =>
     /\ \A k \in 1 .. Len(flows) :
          /\ IsKnown(flows[k].name)
          /\ name_idx[flows[k].name] = k - 1
          /\ Lookup(flows[k].name).flow_id = flows[k].flow_id
          /\ Lookup(flows[k].name).api_key = flows[k].api_key
     /\ result.type = "tools" =>
          \A k \in 1 .. Len(result.value) :
             Lookup(result.value[k].name) = flows[k]

====
